---- MODULE Spec2Model ----
(***************************************************************************)
(* Model of 0x00-personal_data/filtered_logger.py: the redaction function  *)
(* filter_datum, the RedactingFormatter, the process-wide "user_data"      *)
(* logger built by get_logger, and the driving loop main.                  *)
(*                                                                         *)
(* A Python str is a sequence of one-character strings, so that pattern    *)
(* matching, joining and splitting are computed character by character.    *)
(***************************************************************************)
EXTENDS Integers, Sequences, FiniteSets, TLC

VARIABLES
    \* ---- a call of filter_datum / RedactingFormatter.format under study
    fields,      \* filter_datum's fields (a list of str)
    redaction,   \* filter_datum's redaction
    message,     \* filter_datum's message
    separator,   \* filter_datum's separator
    out,         \* the str returned by filter_datum(fields, redaction, message, separator)
    out2,        \* the str returned by applying filter_datum to out again
    record,      \* the LogRecord handed to RedactingFormatter.format
    line,        \* the str returned by RedactingFormatter.format(record)
    fpc,         \* where the caller of filter_datum / format stands
    \* ---- the process: the "user_data" logger, its stream, and main
    handlers,    \* logger.handlers of logging.getLogger("user_data")
    level,       \* the logger's level
    calls,       \* number of calls of get_logger so far
    stream,      \* the lines written to the handlers' stream, in order
    pc,          \* where main stands
    runs,        \* number of calls of main so far
    dbOpen,      \* connections returned by get_db and not closed
    cursorOpen,  \* cursors returned by db.cursor() and not closed
    columns,     \* main's local fields: the column names of cursor.description
    rows,        \* the number of rows the cursor has still to yield
    rowsDone,    \* rows main has logged in the current run
    runStart,    \* Len(stream) when the current run of main began
    lastMessage  \* the message main built for the last row it logged

filterVars == <<fields, redaction, message, separator, out, out2, record, line, fpc>>
mainVars == <<handlers, level, calls, stream, pc, runs, dbOpen, cursorOpen,
              columns, rows, rowsDone, runStart, lastMessage>>
vars == <<fields, redaction, message, separator, out, out2, record, line, fpc,
          handlers, level, calls, stream, pc, runs, dbOpen, cursorOpen,
          columns, rows, rowsDone, runStart, lastMessage>>

(***************************************************************************)
(* Bounds                                                                  *)
(***************************************************************************)
\* longest message drawn from the alphabet
MaxLen == 4

\* the characters messages are drawn from: two letters, '=' and ';'
Alphabet == {"n", "u", "=", ";"}

RECURSIVE StrsOfLen(_)
StrsOfLen(k) ==
    IF k = 0 THEN {<<>>}
    ELSE {Append(s, c) : s \in StrsOfLen(k - 1), c \in Alphabet}

Strs(k) == UNION {StrsOfLen(j) : j \in 0..k}

(***************************************************************************)
(* Program constants                                                       *)
(***************************************************************************)
NAME == <<"n", "a", "m", "e">>
EMAIL == <<"e", "m", "a", "i", "l">>
PHONE == <<"p", "h", "o", "n", "e">>
SSN == <<"s", "s", "n">>
PASSWORD == <<"p", "a", "s", "s", "w", "o", "r", "d">>

PII_FIELDS == <<NAME, EMAIL, PHONE, SSN, PASSWORD>>

REDACTION == <<"*", "*", "*">>

SEPARATOR == <<";">>

(***************************************************************************)
(* filter_datum                                                            *)
(***************************************************************************)
\* '|'.join(fields) inside the group "(...)": the alternatives of the group,
\* in list order; an empty list gives the group "()", whose only alternative
\* is the empty string.
Alternatives(fs) == IF fs = <<>> THEN << <<>> >> ELSE fs

\* the literal f occurs in s at position i
LiteralAt(s, i, f) ==
    /\ i + Len(f) - 1 <= Len(s)
    /\ \A k \in 1..Len(f) : s[i + k - 1] = f[k]

\* the alternative f followed by '=' matches at position i
AltMatch(s, i, f) ==
    /\ LiteralAt(s, i, f)
    /\ i + Len(f) <= Len(s)
    /\ s[i + Len(f)] = "="

\* the first alternative (0 if none) with which the pattern matches at i:
\* the group tries its alternatives in order, and the rest of the
\* pattern, "=([^sep]*)", can always finish a match once '=' is found.
FirstAlt(alts, s, i) ==
    IF \E k \in 1..Len(alts) : AltMatch(s, i, alts[k])
    THEN CHOOSE k \in 1..Len(alts) :
            /\ AltMatch(s, i, alts[k])
            /\ \A j \in 1..(k - 1) : ~AltMatch(s, i, alts[j])
    ELSE 0

\* the characters the class [^separator] excludes
SepChars(sep) == {sep[k] : k \in 1..Len(sep)}

\* faulty variant: a lazy "([^sep]*?)", which captures nothing
ValueEndLazy(s, j, sep) == j

\* faulty variant: "(.*)", which runs over the separators to the end
ValueEndToEnd(s, j, sep) == Len(s) + 1

\* "([^sep]*)" from position j: the position just after the longest run of
\* characters outside the class.
RECURSIVE ValueEnd(_, _, _)
ValueEnd(s, j, sep) ==
    IF j > Len(s) \/ s[j] \in SepChars(sep) THEN j
    ELSE ValueEnd(s, j + 1, sep)

\* faulty variant: a replacement that forgets m.group(1)
ReplacementNoKey(key, red) == <<"=">> \o red

\* the replacement callback: lambda m: f"{m.group(1)}={redaction}"
Replacement(key, red) == key \o <<"=">> \o red

\* re.sub: scan left to right from i; a match is replaced and the scan goes
\* on after it, an unmatched character is copied.  The pattern always
\* consumes '=', so no match is empty.
RECURSIVE Sub(_, _, _, _, _)
Sub(alts, red, s, sep, i) ==
    IF i > Len(s) THEN <<>>
    ELSE LET k == FirstAlt(alts, s, i) IN
         IF k = 0 THEN <<s[i]>> \o Sub(alts, red, s, sep, i + 1)
         ELSE LET e == ValueEnd(s, i + Len(alts[k]) + 1, sep) IN
              Replacement(alts[k], red) \o Sub(alts, red, s, sep, e)

FilterDatum(fs, red, msg, sep) == Sub(Alternatives(fs), red, msg, sep, 1)

(***************************************************************************)
(* RedactingFormatter                                                      *)
(***************************************************************************)
\* the literal text of FORMAT around its placeholders
HOLBERTON == <<"[", "H", "O", "L", "B", "E", "R", "T", "O", "N", "]", " ">>

\* the width of "%(asctime)-15s"
AsctimeWidth == 15

\* "%-15s": left-justified, padded with blanks to the width, never cut
RECURSIVE PadRight(_, _)
PadRight(s, w) == IF Len(s) >= w THEN s ELSE PadRight(Append(s, " "), w)

\* logging.Formatter(FORMAT).format(record):
\* "[HOLBERTON] %(name)s %(levelname)s %(asctime)-15s: %(message)s"
BaseFormat(rec) ==
    HOLBERTON \o rec.name \o <<" ">> \o rec.levelname \o <<" ">>
        \o PadRight(rec.asctime, AsctimeWidth) \o <<":", " ">> \o rec.message

\* RedactingFormatter(fields).format(record)
Format(fs, rec) == FilterDatum(fs, REDACTION, BaseFormat(rec), SEPARATOR)

(***************************************************************************)
(* Inputs of the calls under study                                         *)
(***************************************************************************)
N == <<"n">>
U == <<"u">>
UN == <<"u", "n">>

\* field lists: empty, one name, a name and a longer name ending with it
FieldLists == {<<>>, <<N>>, <<UN>>, <<N, UN>>, <<U, N>>}

\* masks: the formatter's, one holding ';', one holding '=', one letter
Masks == {REDACTION, <<"*", ";">>, <<"n", "=">>, <<"u">>}

Separators == {SEPARATOR, <<"u">>}

\* the separator appears in no field name (spec.md 4.1: otherwise undefined)
SepFree(fs, sep) ==
    \A i \in 1..Len(fs) : \A k \in 1..Len(fs[i]) : fs[i][k] \notin SepChars(sep)

EX_MESSAGE ==
    <<"n", "a", "m", "e", "=", "B", "o", "b", ";",
      "p", "a", "s", "s", "w", "o", "r", "d", "=", "h", "u", "n", "t", "e", "r", "2", ";",
      "s", "s", "n", "=", "1", "2", "3", "-", "4", "5", "-", "6", "7", "8", "9">>

EX_MASKED ==
    <<"n", "a", "m", "e", "=", "B", "o", "b", ";",
      "p", "a", "s", "s", "w", "o", "r", "d", "=", "*", "*", "*", ";",
      "s", "s", "n", "=", "*", "*", "*">>

EX_EMPTY == <<"e", "m", "a", "i", "l", "=", ";", "u", "s", "e", "r", "=", "a">>

EX_EMPTY_MASKED ==
    <<"e", "m", "a", "i", "l", "=", "X", "X", "X", ";", "u", "s", "e", "r", "=", "a">>

EX_USERNAME == <<"u", "s", "e", "r", "n", "a", "m", "e", "=", "B", "o", "b">>

XXX == <<"X", "X", "X">>

\* the concrete cases of spec.md section 8
ConcreteCases ==
    { [fields |-> <<PASSWORD, SSN>>, redaction |-> REDACTION,
       message |-> EX_MESSAGE, separator |-> SEPARATOR],
      [fields |-> <<EMAIL>>, redaction |-> XXX,
       message |-> EX_EMPTY, separator |-> SEPARATOR],
      [fields |-> <<NAME>>, redaction |-> REDACTION,
       message |-> EX_USERNAME, separator |-> SEPARATOR] }

BoundedCases ==
    { [fields |-> fs, redaction |-> red, message |-> msg, separator |-> sep] :
        fs \in FieldLists, red \in Masks, msg \in Strs(MaxLen), sep \in Separators }

Cases == ConcreteCases \cup {c \in BoundedCases : SepFree(c.fields, c.separator)}

USER_DATA == <<"u", "s", "e", "r", "_", "d", "a", "t", "a">>
INFO == <<"I", "N", "F", "O">>

\* asctime as "%Y-%m-%d %H:%M:%S,mmm"
Timestamps ==
    { <<"2", "0", "2", "4", "-", "0", "1", "-", "0", "1", " ",
        "0", "0", ":", "0", "0", ":", "0", "0", ",", "0", "0", "0">>,
      <<"2", "0", "2", "4", "-", "1", "2", "-", "3", "1", " ",
        "2", "3", ":", "5", "9", ":", "5", "9", ",", "9", "9", "9">> }

NoRecord == [name |-> <<>>, levelname |-> <<>>, asctime |-> <<>>, message |-> <<>>]

(***************************************************************************)
(* The process at rest: no handler, nothing written, main not running      *)
(***************************************************************************)
MainIdle ==
    /\ handlers = <<>>
    /\ level = "NOTSET"
    /\ calls = 0
    /\ stream = <<>>
    /\ pc = "idle"
    /\ runs = 0
    /\ dbOpen = 0
    /\ cursorOpen = 0
    /\ columns = <<>>
    /\ rows = 0
    /\ rowsDone = 0
    /\ runStart = 0
    /\ lastMessage = <<>>

(***************************************************************************)
(* FilterSpec: filter_datum and RedactingFormatter.format on drawn inputs  *)
(***************************************************************************)
FilterInit ==
    /\ \E c \in Cases :
          /\ fields = c.fields
          /\ redaction = c.redaction
          /\ message = c.message
          /\ separator = c.separator
    /\ out = <<>>
    /\ out2 = <<>>
    /\ record = NoRecord
    /\ line = <<>>
    /\ fpc = "start"
    /\ MainIdle

\* out = filter_datum(fields, redaction, message, separator)
Apply ==
    /\ fpc = "start"
    /\ out' = FilterDatum(fields, redaction, message, separator)
    /\ fpc' = "once"
    /\ UNCHANGED <<fields, redaction, message, separator, out2, record, line>>
    /\ UNCHANGED mainVars

\* out2 = filter_datum(fields, redaction, out, separator)
ApplyAgain ==
    /\ fpc = "once"
    /\ out2' = FilterDatum(fields, redaction, out, separator)
    /\ fpc' = "twice"
    /\ UNCHANGED <<fields, redaction, message, separator, out, record, line>>
    /\ UNCHANGED mainVars

\* line = RedactingFormatter(fields).format(record), for a record of the
\* "user_data" logger at INFO carrying message; the formatter's mask and
\* separator are the class constants.
FormatRecord ==
    /\ fpc = "start"
    /\ redaction = REDACTION
    /\ separator = SEPARATOR
    /\ \E ts \in Timestamps :
          /\ record' = [name |-> USER_DATA, levelname |-> INFO,
                        asctime |-> ts, message |-> message]
          /\ line' = Format(fields, record')
    /\ fpc' = "formatted"
    /\ UNCHANGED <<fields, redaction, message, separator, out, out2>>
    /\ UNCHANGED mainVars

FilterNext == Apply \/ ApplyAgain \/ FormatRecord

FilterSpec == FilterInit /\ [][FilterNext]_vars

(***************************************************************************)
(* Reading a message as tokens: what the claims speak about                *)
(***************************************************************************)
RECURSIVE SplitFrom(_, _, _, _)
SplitFrom(s, c, i, cur) ==
    IF i > Len(s) THEN <<cur>>
    ELSE IF s[i] = c THEN <<cur>> \o SplitFrom(s, c, i + 1, <<>>)
    ELSE SplitFrom(s, c, i + 1, Append(cur, s[i]))

\* the tokens of s, in order: the runs between separators (none for "")
Tokens(s, sep) == IF s = <<>> THEN <<>> ELSE SplitFrom(s, sep[1], 1, <<>>)

RECURSIVE JoinTokens(_, _)
JoinTokens(toks, sep) ==
    IF toks = <<>> THEN <<>>
    ELSE IF Len(toks) = 1 THEN toks[1]
    ELSE toks[1] \o sep \o JoinTokens(Tail(toks), sep)

HasKey(t) == \E i \in 1..Len(t) : t[i] = "="

EqAt(t) == CHOOSE i \in 1..Len(t) : t[i] = "=" /\ \A j \in 1..(i - 1) : t[j] # "="

\* the key of a key=value token: the text before its first '='
KeyOf(t) == SubSeq(t, 1, EqAt(t) - 1)

ValueOf(t) == SubSeq(t, EqAt(t) + 1, Len(t))

InFields(k, fs) == \E i \in 1..Len(fs) : fs[i] = k

\* t is a key=value token whose key is exactly a member of fs
Sensitive(t, fs) == HasKey(t) /\ InFields(KeyOf(t), fs)

\* a key=value token with a non-empty key and no second '='
Proper(t) == HasKey(t) /\ KeyOf(t) # <<>> /\ ~HasKey(ValueOf(t))

\* a non-empty message all of whose tokens are such tokens
ProperMessage(s, sep) ==
    /\ Tokens(s, sep) # <<>>
    /\ \A i \in 1..Len(Tokens(s, sep)) : Proper(Tokens(s, sep)[i])

\* every token is a key=value pair
WellFormed(s, sep) ==
    \A i \in 1..Len(Tokens(s, sep)) : HasKey(Tokens(s, sep)[i])

\* the keys of the tokens, in order
Keys(s, sep) ==
    [i \in 1..Len(Tokens(s, sep)) |->
        IF HasKey(Tokens(s, sep)[i]) THEN <<"key", KeyOf(Tokens(s, sep)[i])>>
        ELSE <<"nokey">>]

\* the mask holds no separator character
NoSep(red, sep) == \A i \in 1..Len(red) : red[i] \notin SepChars(sep)

\* what exact-key redaction does to one token
ExactToken(t, fs, red) ==
    IF Sensitive(t, fs) THEN KeyOf(t) \o <<"=">> \o red ELSE t

\* exact-key redaction of a whole message, token by token
ExactRedact(fs, red, msg, sep) ==
    JoinTokens([i \in 1..Len(Tokens(msg, sep)) |->
                    ExactToken(Tokens(msg, sep)[i], fs, red)], sep)

\* o, read from position p, holds one segment for each of toks[i..], the
\* segments separated by c, where the segment of a token whose key is in fs
\* is that key, '=' and the mask, and nothing follows the last segment.
RECURSIVE MaskedFrom(_, _, _, _, _, _, _)
MaskedFrom(toks, i, o, p, fs, red, c) ==
    LET t == toks[i]
        want == KeyOf(t) \o <<"=">> \o red
        ends == IF Sensitive(t, fs) THEN {p + Len(want)} ELSE p..(Len(o) + 1)
    IN \E q \in ends :
          /\ q <= Len(o) + 1
          /\ Sensitive(t, fs) => SubSeq(o, p, q - 1) = want
          /\ IF i = Len(toks) THEN q = Len(o) + 1
             ELSE /\ q <= Len(o)
                  /\ o[q] = c
                  /\ MaskedFrom(toks, i + 1, o, q + 1, fs, red, c)

Masked(msg, o, fs, red, sep) ==
    IF Tokens(msg, sep) = <<>> THEN o = <<>>
    ELSE MaskedFrom(Tokens(msg, sep), 1, o, 1, fs, red, sep[1])

(***************************************************************************)
(* Claims about filter_datum and RedactingFormatter.format (FilterSpec)    *)
(***************************************************************************)
\* C1: with a non-empty field list, every key=value token of the message
\* (non-empty key, one '=') whose key is not exactly a member of fields comes
\* back identical, at the same place among the tokens of the output (the mask
\* holding no separator, so that the output's tokens line up with the
\* input's); the empty field list is C2's case.
C1_OtherKeysUntouched ==
    (fpc = "once" /\ fields # <<>> /\ NoSep(redaction, separator)) =>
        \A i \in 1..Len(Tokens(message, separator)) :
            LET t == Tokens(message, separator)[i] IN
            (Proper(t) /\ ~InFields(KeyOf(t), fields)) =>
                /\ i <= Len(Tokens(out, separator))
                /\ Tokens(out, separator)[i] = t

\* C2: with an empty field list filter_datum returns the message unchanged,
\* here for the messages made of key=value tokens.
C2_EmptyFieldsIdentity ==
    (fpc = "once" /\ fields = <<>> /\ ProperMessage(message, separator)) =>
        out = message

\* C3: the output holds, token for token and in order, key=mask for every
\* token of the message whose key is in fields, the value being everything
\* up to the next separator or the end, an empty value included; and the two
\* concrete cases of the spec give the stated results.
C3_SensitiveValuesMasked ==
    fpc = "once" =>
        /\ Masked(message, out, fields, redaction, separator)
        /\ (message = EX_MESSAGE /\ fields = <<PASSWORD, SSN>>) => out = EX_MASKED
        /\ (message = EX_EMPTY /\ fields = <<EMAIL>>) => out = EX_EMPTY_MASKED

\* C3 witness: a message of two tokens or more with a token whose key is in
\* fields and whose value is empty has been redacted.
C3_Witness ==
    /\ fpc = "once"
    /\ Len(Tokens(message, separator)) >= 2
    /\ \E i \in 1..Len(Tokens(message, separator)) :
          /\ Sensitive(Tokens(message, separator)[i], fields)
          /\ ValueOf(Tokens(message, separator)[i]) = <<>>
    /\ out # message

\* C4 (as claimed): for a message of key=value tokens and a non-empty field
\* list, applying filter_datum a second time with the same fields, mask and
\* separator gives the output of the first application.
C4_Idempotent ==
    (fpc = "twice" /\ fields # <<>> /\ ProperMessage(message, separator)) =>
        out2 = out

\* C4 (amended): for every message and field list, the second application
\* gives the output of the first when the mask holds no separator character.
C4_IdempotentSepFreeMask ==
    (fpc = "twice" /\ NoSep(redaction, separator)) => out2 = out

\* C4 witness: a message that the first application changed has been
\* filtered twice with a mask holding no separator.
C4_Witness ==
    /\ fpc = "twice"
    /\ NoSep(redaction, separator)
    /\ out # message
    /\ out2 = out

\* C5: for a formatter with a non-empty field list and a message of
\* key=value tokens, format returns the rendered line with exactly the tokens
\* whose key is a configured field masked, and everything else (the template
\* text, name, level, timestamp, tokens of other keys) unchanged.
C5_FormatMasksExactly ==
    (fpc = "formatted" /\ fields # <<>> /\ ProperMessage(message, separator)) =>
        line = BaseFormat([record EXCEPT !.message = <<>>])
                   \o ExactRedact(fields, REDACTION, record.message, SEPARATOR)

\* C6 (as claimed): for a message of key=value tokens and a non-empty field
\* list, the keys of the output's tokens are the keys of the input's tokens,
\* in order and in number.
C6_KeysPreserved ==
    (fpc = "once" /\ fields # <<>> /\ ProperMessage(message, separator)) =>
        Keys(out, separator) = Keys(message, separator)

\* C6 (amended): for every field list and every message whose tokens all
\* hold '=', the keys of the output's tokens are the keys of the input's
\* tokens, in order and in number, when the mask holds no separator character.
C6_KeysPreservedSepFreeMask ==
    (fpc = "once" /\ WellFormed(message, separator)
       /\ NoSep(redaction, separator)) =>
        Keys(out, separator) = Keys(message, separator)

\* C6 witness: a well-formed message of two tokens or more has been changed
\* by filter_datum under a mask holding no separator.
C6_Witness ==
    /\ fpc = "once"
    /\ WellFormed(message, separator)
    /\ NoSep(redaction, separator)
    /\ Len(Tokens(message, separator)) >= 2
    /\ out # message

(***************************************************************************)
(* The process: get_logger and main                                        *)
(***************************************************************************)
\* calls of main in one process
MaxRuns == 2

\* calls of get_logger made by other callers than main
MaxCalls == 1

\* rows the query returns
MaxRows == 1

\* cursor.description of the users table, cut to two columns
Columns == <<NAME, EMAIL>>

\* the rows the cursor may yield, each value as str() renders it
Rows == { << <<"B">>, <<"x">> >>, << <<>>, <<"x">> >> }

\* the instant at which records are created
Now ==
    <<"2", "0", "2", "4", "-", "0", "1", "-", "0", "1", " ",
      "0", "0", ":", "0", "0", ":", "0", "0", ",", "0", "0", "0">>

\* faulty variant: a handler is added only to a logger that has none
AddHandlerOnce(hs, h) == IF hs = <<>> THEN <<h>> ELSE hs

\* logger.addHandler(stream_handler): the handler, known by the fields of its
\* formatter, goes to the end of logger.handlers
AddHandler(hs, h) == Append(hs, h)

\* get_logger(): the "user_data" logger at INFO, with one more StreamHandler
\* whose formatter is RedactingFormatter(PII_FIELDS)
GetLogger ==
    /\ level' = "INFO"
    /\ handlers' = AddHandler(handlers, [fields |-> PII_FIELDS])
    /\ calls' = calls + 1

\* the separator main joins a row's pairs with
RowSeparator == <<";", " ">>

\* "; ".join(f"{fields[i]}={row[i]}" for i in range(len(fields)))
RowMessage(cols, row) ==
    JoinTokens([i \in 1..Len(cols) |-> cols[i] \o <<"=">> \o row[i]], RowSeparator)

\* the record logger.info(msg) creates
InfoRecord(msg) ==
    [name |-> USER_DATA, levelname |-> INFO, asctime |-> Now, message |-> msg]

\* logger.info(msg): every handler of the logger formats the record and
\* writes the line to its stream
Emit(hs, msg) == [i \in 1..Len(hs) |-> Format(hs[i].fields, InfoRecord(msg))]

FilterIdle ==
    /\ fields = <<>>
    /\ redaction = <<>>
    /\ message = <<>>
    /\ separator = <<>>
    /\ out = <<>>
    /\ out2 = <<>>
    /\ record = NoRecord
    /\ line = <<>>
    /\ fpc = "unused"

Init == FilterIdle /\ MainIdle

\* get_logger() called by another caller, while main is not running
GetLoggerCall ==
    /\ pc \in {"idle", "done", "failed"}
    /\ calls < runs + MaxCalls
    /\ GetLogger
    /\ UNCHANGED <<stream, pc, runs, dbOpen, cursorOpen, columns, rows,
                   rowsDone, runStart, lastMessage>>
    /\ UNCHANGED filterVars

\* main is called; db = get_db() returns a connection
GetDb ==
    /\ pc \in {"idle", "done", "failed"}
    /\ runs < MaxRuns
    /\ runs' = runs + 1
    /\ dbOpen' = dbOpen + 1
    /\ runStart' = Len(stream)
    /\ rowsDone' = 0
    /\ columns' = <<>>
    /\ rows' = 0
    /\ pc' = "connected"
    /\ UNCHANGED <<handlers, level, calls, stream, cursorOpen, lastMessage>>
    /\ UNCHANGED filterVars

\* main is called; mysql.connector.connect raises
GetDbRaises ==
    /\ pc \in {"idle", "done", "failed"}
    /\ runs < MaxRuns
    /\ runs' = runs + 1
    /\ runStart' = Len(stream)
    /\ rowsDone' = 0
    /\ columns' = <<>>
    /\ rows' = 0
    /\ pc' = "failed"
    /\ UNCHANGED <<handlers, level, calls, stream, dbOpen, cursorOpen, lastMessage>>
    /\ UNCHANGED filterVars

\* cursor = db.cursor()
OpenCursor ==
    /\ pc = "connected"
    /\ cursorOpen' = cursorOpen + 1
    /\ pc' = "cursor"
    /\ UNCHANGED <<handlers, level, calls, stream, runs, dbOpen, columns, rows,
                   rowsDone, runStart, lastMessage>>
    /\ UNCHANGED filterVars

\* cursor.execute("SELECT * FROM users;") returns: the result holds n rows
Execute ==
    /\ pc = "cursor"
    /\ \E n \in 0..MaxRows : rows' = n
    /\ pc' = "executed"
    /\ UNCHANGED <<handlers, level, calls, stream, runs, dbOpen, cursorOpen,
                   columns, rowsDone, runStart, lastMessage>>
    /\ UNCHANGED filterVars

\* cursor.execute raises: the exception leaves main, which has no handler
ExecuteRaises ==
    /\ pc = "cursor"
    /\ pc' = "failed"
    /\ UNCHANGED <<handlers, level, calls, stream, runs, dbOpen, cursorOpen,
                   columns, rows, rowsDone, runStart, lastMessage>>
    /\ UNCHANGED filterVars

\* fields = [field[0] for field in cursor.description]
ReadDescription ==
    /\ pc = "executed"
    /\ columns' = Columns
    /\ pc' = "described"
    /\ UNCHANGED <<handlers, level, calls, stream, runs, dbOpen, cursorOpen,
                   rows, rowsDone, runStart, lastMessage>>
    /\ UNCHANGED filterVars

\* logger = get_logger()
MainGetLogger ==
    /\ pc = "described"
    /\ GetLogger
    /\ pc' = "loop"
    /\ UNCHANGED <<stream, runs, dbOpen, cursorOpen, columns, rows,
                   rowsDone, runStart, lastMessage>>
    /\ UNCHANGED filterVars

\* one turn of "for row in cursor": the row is joined and logged
LogRow ==
    /\ pc = "loop"
    /\ rows > 0
    /\ level = "INFO"
    /\ \E row \in Rows :
          /\ lastMessage' = RowMessage(columns, row)
          /\ stream' = stream \o Emit(handlers, lastMessage')
    /\ rows' = rows - 1
    /\ rowsDone' = rowsDone + 1
    /\ UNCHANGED <<handlers, level, calls, pc, runs, dbOpen, cursorOpen,
                   columns, runStart>>
    /\ UNCHANGED filterVars

\* fetching the next row raises: the exception leaves main
FetchRaises ==
    /\ pc = "loop"
    /\ rows > 0
    /\ pc' = "failed"
    /\ UNCHANGED <<handlers, level, calls, stream, runs, dbOpen, cursorOpen,
                   columns, rows, rowsDone, runStart, lastMessage>>
    /\ UNCHANGED filterVars

\* the cursor is exhausted; cursor.close()
CloseCursor ==
    /\ pc = "loop"
    /\ rows = 0
    /\ cursorOpen' = cursorOpen - 1
    /\ pc' = "closing"
    /\ UNCHANGED <<handlers, level, calls, stream, runs, dbOpen, columns, rows,
                   rowsDone, runStart, lastMessage>>
    /\ UNCHANGED filterVars

\* db.close(); main returns
CloseDb ==
    /\ pc = "closing"
    /\ dbOpen' = dbOpen - 1
    /\ pc' = "done"
    /\ UNCHANGED <<handlers, level, calls, stream, runs, cursorOpen, columns,
                   rows, rowsDone, runStart, lastMessage>>
    /\ UNCHANGED filterVars

Next ==
    \/ GetLoggerCall
    \/ GetDb
    \/ GetDbRaises
    \/ OpenCursor
    \/ Execute
    \/ ExecuteRaises
    \/ ReadDescription
    \/ MainGetLogger
    \/ LogRow
    \/ FetchRaises
    \/ CloseCursor
    \/ CloseDb

Spec == Init /\ [][Next]_vars

(***************************************************************************)
(* Claims about main and get_logger (Spec)                                 *)
(***************************************************************************)
\* C7: whenever a run of main has ended, by returning or by an exception,
\* no connection and no cursor that was opened is left open.
C7_ResourcesReleased ==
    pc \in {"done", "failed"} => (dbOpen = 0 /\ cursorOpen = 0)

\* C8: the message main builds for a row is its column=value pairs delimited
\* by RedactingFormatter.SEPARATOR alone: split at the separator, its tokens
\* are key=value tokens whose keys are exactly the column names, in order.
C8_JoinedWithSeparator ==
    rowsDone > 0 =>
        /\ ProperMessage(lastMessage, SEPARATOR)
        /\ Keys(lastMessage, SEPARATOR) =
              [i \in 1..Len(columns) |-> <<"key", columns[i]>>]

\* C9: at every point of a run of main, the lines the run has written are
\* one per row logged so far, so a run that ends, by returning or by an
\* exception, has written exactly one line per row it logged.
C9_OneLinePerRow ==
    pc \in {"loop", "closing", "done", "failed"} =>
        Len(stream) - runStart = rowsDone

\* C10: every call of get_logger adds one handler to the same logger and
\* keeps the earlier ones, so the logger holds as many handlers as get_logger
\* was called; and one logger.info call writes the redacted line once per
\* handler, that is as many times as get_logger was called.
C10_HandlersAccumulate ==
    [][ /\ Len(handlers') = calls'
        /\ (calls' = calls + 1) =>
              /\ SubSeq(handlers', 1, Len(handlers)) = handlers
              /\ handlers'[calls'].fields = PII_FIELDS
        /\ (rowsDone' = rowsDone + 1) =>
              stream' = stream \o
                  [i \in 1..calls |-> Format(PII_FIELDS, InfoRecord(lastMessage'))]
      ]_vars

\* C10 witness: after two calls of get_logger the logger holds two handlers
\* and the one row logged since was written twice, both lines masked.
C10_Witness ==
    /\ calls = 2
    /\ Len(handlers) = 2
    /\ pc = "loop"
    /\ rowsDone = 1
    /\ Len(stream) = runStart + 2
    /\ stream[Len(stream)] = stream[Len(stream) - 1]
    /\ stream[Len(stream)] # BaseFormat(InfoRecord(lastMessage))

====
